---------------------------- MODULE Spec2Model ----------------------------
(***************************************************************************)
(* A model of sklt: the keyboard registry of the layout monitor (src/sklt.go *)
(* monitor.set / monitor.del), the Sway IPC codec (ReadMessage,             *)
(* WriteEmptyMessage, WriteJSONMessage), the monitor's receive loop         *)
(* (watchLayouts / processMsg), the ticker (timer) and the status loop of   *)
(* main.                                                                    *)
(***************************************************************************)
EXTENDS Integers, Sequences, FiniteSets, TLC

(***************************************************************************)
(* Input domains.  Go strings are TLA+ strings; len(s) == 0 is s = "".      *)
(***************************************************************************)
\* Device identifiers as Sway reports them: non-empty strings.
DevIds == {"a", "b", "c"}
\* Layout names; "" is "no layout".
Layouts == {"us", "de"}
LayoutInputs == Layouts \cup {""}

VARIABLES
    kbds,       \* monitor.kbds: device identifier -> kbdDev
    kbdsNil,    \* monitor.kbds == nil (the map is made by the first set)
    lastKbd,    \* monitor.lastKbd
    op,         \* history: the registry operation applied last
    recent,     \* history: the devices that are present, least recently changed first
    inb,        \* the bytes of the connection that were sent to the reader and are not read yet
    inClosed,   \* the sending end of the connection is closed (a read past the last byte is EOF)
    rm,         \* history: the outcome of the last ReadMessage call
    wq,         \* history: the frames whose bytes are in inb, oldest first
    toSend,     \* the frames the peer still sends in this run
    outb,       \* the bytes the monitor wrote to the connection
    mpc,        \* where the monitor is: "off", "start", "read", "send" (blocked on
                \* self.ch <- nl) or "exit" (reporting an error, before os.Exit(1))
    prevLayout, \* monitor.prevLayout; while mpc = "send" also the value being sent
    exit,       \* "running", or "failed" after os.Exit(1)
    now,        \* the wall clock
    tpc,        \* where the ticker is: "now", "send" (blocked on ch <- t) or "sleep"
    tt,         \* timer's t
    wake,       \* the earliest time at which the ticker's time.Sleep returns
    tch,        \* the values buffered in tch (make(chan time.Time, 1))
    ipc,        \* m.s != nil: main has a connection to Sway
    layout,     \* main's layout
    t,          \* main's t
    prevStatus, \* main's prevStatus
    stdout      \* history: the last write to os.Stdout and the last candidate status

regVars == <<kbds, kbdsNil, lastKbd, op, recent>>
connVars == <<inb, inClosed, rm, wq, toSend>>
monVars == <<outb, mpc, prevLayout>>
timerVars == <<tpc, tt, wake, tch>>
mainVars == <<ipc, layout, t, prevStatus, stdout>>
sysVars == <<outb, mpc, prevLayout, exit, now, tpc, tt, wake, tch, ipc, layout, t, prevStatus,
             stdout>>
vars == <<kbds, kbdsNil, lastKbd, op, recent, inb, inClosed, rm, wq, toSend, outb, mpc, prevLayout,
          exit, now, tpc, tt, wake, tch, ipc, layout, t, prevStatus, stdout>>

(***************************************************************************)
(* The registry (src/sklt.go 45-111).                                       *)
(***************************************************************************)
\* The zero value of kbdDev: what reading a missing key of a Go map yields.
ZeroKbd == [layout |-> "", prevDev |-> "", nextDev |-> ""]

\* self.kbds[id] as an rvalue.
Lookup(m, id) == IF id \in DOMAIN m THEN m[id] ELSE ZeroKbd

\* self.kbds[id] = r
Store(m, id, r) == [x \in (DOMAIN m) \cup {id} |-> IF x = id THEN r ELSE m[x]]

\* delete(self.kbds, id)
Delete(m, id) == [x \in (DOMAIN m) \ {id} |-> m[x]]

\* The registry fields of the monitor as one value.
Reg == [kbds |-> kbds, nil |-> kbdsNil, lastKbd |-> lastKbd]

\* if len(l1.prevDev) > 0 { l2 := kbds[l1.prevDev]; l2.nextDev = l1.nextDev; kbds[l1.prevDev] = l2 }
RelinkPrev(m, l1) ==
    IF l1.prevDev # ""
    THEN Store(m, l1.prevDev, [Lookup(m, l1.prevDev) EXCEPT !.nextDev = l1.nextDev])
    ELSE m

\* if len(l1.nextDev) > 0 { l2 := kbds[l1.nextDev]; l2.prevDev = l1.prevDev; kbds[l1.nextDev] = l2 }
RelinkNext(m, l1) ==
    IF l1.nextDev # ""
    THEN Store(m, l1.nextDev, [Lookup(m, l1.nextDev) EXCEPT !.prevDev = l1.prevDev])
    ELSE m

\* monitor.del without "if self.lastKbd == id": the tail always moves to l1.prevDev.
delRetargets(r, id) ==
    IF id = "" THEN r
    ELSE IF r.nil THEN r
    ELSE LET l1 == Lookup(r.kbds, id)
             k1 == Delete(r.kbds, id)
             k2 == RelinkPrev(k1, l1)
             k3 == RelinkNext(k2, l1)
         IN  [nil |-> FALSE, kbds |-> k3, lastKbd |-> l1.prevDev]

\* monitor.del
del(r, id) ==
    IF id = "" THEN r
    ELSE IF r.nil THEN r
    ELSE LET l1 == Lookup(r.kbds, id)
             k1 == Delete(r.kbds, id)
             k2 == RelinkPrev(k1, l1)
             k3 == RelinkNext(k2, l1)
         IN  [nil     |-> FALSE,
              kbds    |-> k3,
              lastKbd |-> IF r.lastKbd = id THEN l1.prevDev ELSE r.lastKbd]

\* The tail-append branch of monitor.set (lines 95-109) followed by the store of line 110.
MoveToTail(r, id, l1) ==
    LET k2 == RelinkPrev(r.kbds, l1)
        k3 == RelinkNext(k2, l1)
    IN  [nil     |-> FALSE,
         kbds    |-> Store(k3, id, [l1 EXCEPT !.prevDev = r.lastKbd, !.nextDev = ""]),
         lastKbd |-> id]

\* monitor.set
set(r, id, l) ==
    IF l = "" THEN del(r, id)
    ELSE LET l0 == Lookup(r.kbds, id)
         IN  IF l0.layout = l THEN [r EXCEPT !.nil = FALSE]
             ELSE LET l1 == [l0 EXCEPT !.layout = l]
                  IN  IF r.lastKbd # id
                      THEN MoveToTail(r, id, l1)
                      ELSE [nil |-> FALSE, kbds |-> Store(r.kbds, id, l1), lastKbd |-> r.lastKbd]

\* self.kbds[self.lastKbd].layout, the layout watchLayouts reports (line 167).
currentLayout(r) == Lookup(r.kbds, r.lastKbd).layout

(***************************************************************************)
(* The documented order (src/sklt.go 45, 81; README 12-13): "in the order   *)
(* of recent layout changes", "if the layout has changed or the identifier  *)
(* is new, put the keyboard at the end of the list".  recent is that list,  *)
(* kept beside the program's state to state what the registry should hold.  *)
(***************************************************************************)
RECURSIVE Without(_, _)
Without(s, id) ==
    IF s = <<>> THEN <<>>
    ELSE IF Head(s).id = id THEN Without(Tail(s), id)
    ELSE <<Head(s)>> \o Without(Tail(s), id)

Has(s, id) == \E i \in 1..Len(s) : s[i].id = id
LayoutIn(s, id) == (CHOOSE i \in 1..Len(s) : s[i].id = id)

RecentDel(s, id) == Without(s, id)

RecentSet(s, id, l) ==
    IF l = "" THEN Without(s, id)
    ELSE IF Has(s, id) /\ s[LayoutIn(s, id)].layout = l THEN s
    ELSE Without(s, id) \o <<[id |-> id, layout |-> l]>>

\* op before the first operation.  known: the map held id when the operation began.
NoOp == [name |-> "none", id |-> "", layout |-> "", known |-> FALSE]

(***************************************************************************)
(* The Sway IPC codec (src/sklt.go 298-363, ByteOrder in src/unnamed).      *)
(* A byte is a number in 0..255.  A uint32 is kept as its two 16-bit        *)
(* halves, [hi, lo] for hi * 65536 + lo, because InputEvent, 0x80000015,    *)
(* is beyond the integers TLC computes with.                                *)
(***************************************************************************)
\* var Magic = [6]byte{'i', '3', '-', 'i', 'p', 'c'}
Magic == <<105, 51, 45, 105, 112, 99>>

\* Message type codes.
SUBSCRIBE == [hi |-> 0, lo |-> 2]
GET_INPUTS == [hi |-> 0, lo |-> 100]
InputEvent == [hi |-> 32768, lo |-> 21]

\* binary.Size(MessageHeader{}): [6]byte + uint32 + uint32.
HeaderLen == 14

Min(x, y) == IF x < y THEN x ELSE y

\* uint32(n) of a non-negative int.
ToUint32(n) == [hi |-> (n \div 65536) % 65536, lo |-> n % 65536]

\* int64(v) of a uint32.
Int64(v) == v.hi * 65536 + v.lo

\* PutUint32 of binary.BigEndian, the other byte order.
PutUint32BE(v) == <<v.hi \div 256, v.hi % 256, v.lo \div 256, v.lo % 256>>

\* ByteOrder.PutUint32: binary.LittleEndian, least significant byte first.
PutUint32(v) == <<v.lo % 256, v.lo \div 256, v.hi % 256, v.hi \div 256>>

\* ByteOrder.Uint32: binary.LittleEndian.
Uint32(b) == [hi |-> b[3] + 256 * b[4], lo |-> b[1] + 256 * b[2]]

\* binary.Write(w, ByteOrder, MessageHeader{...}): the fields in declaration order.
EncodeHeader(h) == h.Magic \o PutUint32(h.Length) \o PutUint32(h.Type)

\* binary.Read(r, ByteOrder, &h) on the 14 bytes it read.
DecodeHeader(b) ==
    [Magic  |-> SubSeq(b, 1, 6),
     Length |-> Uint32(SubSeq(b, 7, 10)),
     Type   |-> Uint32(SubSeq(b, 11, 14))]

\* WriteEmptyMessage: the bytes it hands to w (Length is the zero value).
WriteEmptyMessage(mt) ==
    EncodeHeader([Magic |-> Magic, Length |-> ToUint32(0), Type |-> mt])

\* WriteJSONMessage after json.Marshal returned b: the header, then b.
WriteJSONMessage(mt, b) ==
    EncodeHeader([Magic |-> Magic, Length |-> ToUint32(Len(b)), Type |-> mt]) \o b

\* io.LimitedReader{R: r, N: n}: the bytes it can yield, r holding body.
LimitedReader(body, n) == SubSeq(body, 1, Min(n, Len(body)))

\* ReadMessage without its io.Copy: nothing is discarded.
DiscardNone(p, k) == 0

\* io.Copy(ioutil.Discard, p) after the handler read k bytes of p: the bytes it discards.
Discard(p, k) == Len(p) - k

\* ReadMessage without the check of the magic.
badMagicNever(h) == FALSE

\* if h.Magic != Magic
badMagic(h) == h.Magic # Magic

\* The header ReadMessage reads off a connection holding the bytes r, at least HeaderLen.
headerOf(r) == DecodeHeader(SubSeq(r, 1, HeaderLen))

\* h.Type as ReadMessage hands it to the handler.
typeOf(r) == IF Len(r) < HeaderLen THEN ToUint32(0) ELSE headerOf(r).Type

\* p as ReadMessage hands it to the handler: the bytes p can yield.
payloadOf(r) ==
    IF Len(r) < HeaderLen THEN <<>>
    ELSE LimitedReader(SubSeq(r, HeaderLen + 1, Len(r)), Int64(headerOf(r).Length))

\* What a ReadMessage call that never reached the handler reports of it.
NoHandler == [read |-> 0, err |-> ""]

\* ReadMessage on a connection holding the bytes r (all the bytes that arrive
\* before it returns).  hr is what the handler answers to f(typeOf(r),
\* payloadOf(r)): [read, err, ...], read the bytes it read of p; ReadMessage
\* uses it only where it calls f.
ReadMessage(r, hr) ==
    IF Len(r) < HeaderLen
    THEN [err |-> IF Len(r) = 0 THEN "EOF" ELSE "unexpected EOF",
          called |-> FALSE, type |-> ToUint32(0), length |-> 0, payload |-> <<>>,
          consumed |-> Len(r), rest |-> <<>>, h |-> NoHandler]
    ELSE LET h == headerOf(r)
             body == SubSeq(r, HeaderLen + 1, Len(r))
         IN  IF badMagic(h)
             THEN [err |-> "invalid magic string",
                   called |-> FALSE, type |-> h.Type, length |-> Int64(h.Length),
                   payload |-> <<>>, consumed |-> HeaderLen, rest |-> body, h |-> NoHandler]
             ELSE LET p == payloadOf(r)
                      n == hr.read + Discard(p, hr.read)
                  IN  [err |-> hr.err,
                       called |-> TRUE, type |-> h.Type, length |-> Int64(h.Length),
                       payload |-> p, consumed |-> HeaderLen + n,
                       rest |-> SubSeq(body, n + 1, Len(body)), h |-> hr]

(***************************************************************************)
(* encoding/json on the documents the program exchanges.  json.Marshal is   *)
(* computed on the byte level; json.Decoder.Decode is its inverse on the    *)
(* documents of the model and an error on every other byte string.          *)
(***************************************************************************)
\* The UTF-8 bytes of the strings of the model.
StrBytes(s) ==
    CASE s = "" -> <<>>
      [] s = "a" -> <<97>>
      [] s = "b" -> <<98>>
      [] s = "c" -> <<99>>
      [] s = "us" -> <<117, 115>>
      [] s = "de" -> <<100, 101>>
      [] s = "input" -> <<105, 110, 112, 117, 116>>
      [] s = "removed" -> <<114, 101, 109, 111, 118, 101, 100>>
      [] s = "xkb_layout" -> <<120, 107, 98, 95, 108, 97, 121, 111, 117, 116>>

\* A JSON string: the bytes between two '"'.
JsonString(s) == <<34>> \o StrBytes(s) \o <<34>>

\* json.Marshal of a []string: '[' the strings separated by ',' ']'.
RECURSIVE JsonStrings(_)
JsonStrings(p) ==
    IF p = <<>> THEN <<>>
    ELSE JsonString(Head(p)) \o (IF Len(p) > 1 THEN <<44>> ELSE <<>>) \o JsonStrings(Tail(p))

Marshal(p) == <<91>> \o JsonStrings(p) \o <<93>>

\* The device identifiers and layouts a payload can carry; an absent field decodes to "".
WireIds == {"a", "b"}
WireIdInputs == WireIds \cup {""}

\* An InputDevice with only the needed fields; an empty field is left out.
JsonDevice(d) ==
    <<123>>
    \o (IF d.id # ""
        THEN <<34, 105, 100, 101, 110, 116, 105, 102, 105, 101, 114, 34, 58>> \o JsonString(d.id)
        ELSE <<>>)
    \o (IF d.id # "" /\ d.layout # "" THEN <<44>> ELSE <<>>)
    \o (IF d.layout # ""
        THEN <<34, 120, 107, 98, 95, 97, 99, 116, 105, 118, 101, 95, 108, 97, 121, 111, 117,
               116, 95, 110, 97, 109, 101, 34, 58>> \o JsonString(d.layout)
        ELSE <<>>)
    \o <<125>>

\* A GET_INPUTS reply: '[' the devices separated by ',' ']'.
RECURSIVE JsonDevices(_)
JsonDevices(ds) ==
    IF ds = <<>> THEN <<>>
    ELSE JsonDevice(Head(ds)) \o (IF Len(ds) > 1 THEN <<44>> ELSE <<>>) \o JsonDevices(Tail(ds))

JsonInputs(ds) == <<91>> \o JsonDevices(ds) \o <<93>>

\* An input event: {"change":...,"input":{...}}.
JsonEvent(e) ==
    <<123, 34, 99, 104, 97, 110, 103, 101, 34, 58>> \o JsonString(e.change)
    \o <<44, 34, 105, 110, 112, 117, 116, 34, 58>> \o JsonDevice(e.input) \o <<125>>

\* A SUBSCRIBE reply: {"success":true} or {"success":false}.
JsonSuccess(b) ==
    IF b THEN <<123, 34, 115, 117, 99, 99, 101, 115, 115, 34, 58, 116, 114, 117, 101, 125>>
    ELSE <<123, 34, 115, 117, 99, 99, 101, 115, 115, 34, 58, 102, 97, 108, 115, 101, 125>>

\* The documents of the model.
DeviceDocs == [id : WireIdInputs, layout : LayoutInputs]
MaxInputs == 2
InputsDocs == UNION {[1..n -> DeviceDocs] : n \in 0..MaxInputs}
EventDocs == [change : {"removed", "xkb_layout"}, input : DeviceDocs]

\* json.NewDecoder(payload).Decode(&p): the document whose JSON the payload is.
\* The JSON of every document, beside the document.
SuccessJson == {<<JsonSuccess(b), b>> : b \in BOOLEAN}
InputsJson == {<<JsonInputs(ds), ds>> : ds \in InputsDocs}
EventJson == {<<JsonEvent(e), e>> : e \in EventDocs}

DecodeSuccess(p) ==
    IF \E x \in SuccessJson : x[1] = p
    THEN [ok |-> TRUE, v |-> (CHOOSE x \in SuccessJson : x[1] = p)[2]]
    ELSE [ok |-> FALSE, v |-> FALSE]

DecodeInputs(p) ==
    IF \E x \in InputsJson : x[1] = p
    THEN [ok |-> TRUE, v |-> (CHOOSE x \in InputsJson : x[1] = p)[2]]
    ELSE [ok |-> FALSE, v |-> <<>>]

DecodeEvent(p) ==
    IF \E x \in EventJson : x[1] = p
    THEN [ok |-> TRUE, v |-> (CHOOSE x \in EventJson : x[1] = p)[2]]
    ELSE [ok |-> FALSE, v |-> [change |-> "", input |-> [id |-> "", layout |-> ""]]]

(***************************************************************************)
(* The layout monitor (src/sklt.go 113-174).                                *)
(***************************************************************************)
\* The range loop of case GET_INPUTS run from the last device to the first.
RECURSIVE setAllReversed(_, _)
setAllReversed(r, ds) ==
    IF ds = <<>> THEN r
    ELSE set(setAllReversed(r, Tail(ds)), Head(ds).id, Head(ds).layout)

\* for _, i := range p { self.set(i.Identifier, i.XkbActiveLayoutName) }
RECURSIVE setAll(_, _)
setAll(r, ds) ==
    IF ds = <<>> THEN r
    ELSE setAll(set(r, Head(ds).id, Head(ds).layout), Tail(ds))

\* The documented order after the same range loop.
RECURSIVE RecentSetAll(_, _)
RecentSetAll(s, ds) ==
    IF ds = <<>> THEN s
    ELSE RecentSetAll(RecentSet(s, Head(ds).id, Head(ds).layout), Tail(ds))

\* What processMsg answers: the bytes it read of the payload, its error, the
\* registry it leaves, the bytes it wrote to the connection, and for the
\* history the documented order and the registry operation it ended with.
Handled(p, r, rec, o) ==
    [read |-> Len(p), err |-> "", reg |-> r, out |-> <<>>, recent |-> rec, op |-> o]
Failed(p, r, rec, e) ==
    [read |-> Len(p), err |-> e, reg |-> r, out |-> <<>>, recent |-> rec, op |-> NoOp]

\* case SUBSCRIBE without "if !p.Success": the request follows every reply.
processSubscribeAlways(r, rec, closed, p) ==
    LET d == DecodeSuccess(p)
    IN  IF ~d.ok THEN Failed(p, r, rec, "json")
        ELSE IF closed THEN Failed(p, r, rec, "write")
        ELSE [Handled(p, r, rec, NoOp) EXCEPT !.out = WriteEmptyMessage(GET_INPUTS)]

\* case SUBSCRIBE
processSubscribe(r, rec, closed, p) ==
    LET d == DecodeSuccess(p)
    IN  IF ~d.ok THEN Failed(p, r, rec, "json")
        ELSE IF ~d.v THEN Failed(p, r, rec, "failed to subscribe to Sway events")
        ELSE IF closed THEN Failed(p, r, rec, "write")
        ELSE [Handled(p, r, rec, NoOp) EXCEPT !.out = WriteEmptyMessage(GET_INPUTS)]

\* case GET_INPUTS
processInputs(r, rec, p) ==
    LET d == DecodeInputs(p)
    IN  IF ~d.ok THEN Failed(p, r, rec, "json")
        ELSE Handled(p, setAll(r, d.v), RecentSetAll(rec, d.v),
                     [NoOp EXCEPT !.name = "inputs"])

\* case InputEvent
processEvent(r, rec, p) ==
    LET d == DecodeEvent(p)
        id == d.v.input.id
        l == d.v.input.layout
        known == id \in DOMAIN r.kbds
    IN  IF ~d.ok THEN Failed(p, r, rec, "json")
        ELSE IF d.v.change = "removed"
        THEN Handled(p, del(r, id), RecentDel(rec, id),
                     [name |-> "del", id |-> id, layout |-> "", known |-> known])
        ELSE Handled(p, set(r, id, l), RecentSet(rec, id, l),
                     [name |-> "set", id |-> id, layout |-> l, known |-> known])

\* processMsg with a default case that returns an error.
processMsgStrict(r, rec, closed, mt, p) ==
    IF mt = SUBSCRIBE THEN processSubscribe(r, rec, closed, p)
    ELSE IF mt = GET_INPUTS THEN processInputs(r, rec, p)
    ELSE IF mt = InputEvent THEN processEvent(r, rec, p)
    ELSE [Failed(p, r, rec, "unknown message type") EXCEPT !.read = 0]

\* monitor.processMsg on a monitor whose registry is r; closed: a write to the
\* connection fails.  A type that is none of the three reads nothing.
processMsg(r, rec, closed, mt, p) ==
    IF mt = SUBSCRIBE THEN processSubscribe(r, rec, closed, p)
    ELSE IF mt = GET_INPUTS THEN processInputs(r, rec, p)
    ELSE IF mt = InputEvent THEN processEvent(r, rec, p)
    ELSE [Handled(p, r, rec, NoOp) EXCEPT !.read = 0]

(***************************************************************************)
(* Initial values of the parts of the state.                                *)
(***************************************************************************)
NoFrame == [kind |-> "none", type |-> ToUint32(0), payload |-> <<>>, size |-> 0]

\* rm before the first call.  frame: the frame at the head of wq when the call
\* began; before: the frame of the call before it; calls: the calls so far.
NoRead == [err |-> "", called |-> FALSE, type |-> ToUint32(0), length |-> 0,
           payload |-> <<>>, consumed |-> 0, read |-> 0, frame |-> NoFrame,
           before |-> NoFrame, calls |-> 0]

\* rm after a call that returned res.
Outcome(res) ==
    [err |-> res.err, called |-> res.called, type |-> res.type, length |-> res.length,
     payload |-> res.payload, consumed |-> res.consumed, read |-> res.h.read,
     frame |-> IF wq = <<>> THEN NoFrame ELSE Head(wq),
     before |-> rm.frame, calls |-> rm.calls + 1]

\* monitor{ch: make(chan string)}: kbds nil, lastKbd "" (src/sklt.go 247).
RegInit ==
    /\ kbds = <<>>
    /\ kbdsNil = TRUE
    /\ lastKbd = ""
    /\ op = NoOp
    /\ recent = <<>>

\* A connection on which nothing was sent yet and n frames will be.
ConnInit(n) ==
    /\ inb = <<>>
    /\ inClosed = FALSE
    /\ rm = NoRead
    /\ wq = <<>>
    /\ toSend = n

\* Nothing written to os.Stdout and no candidate yet.  text: the line of the
\* last write call that wrote; whole: it was written to its end; n: such calls
\* so far, modulo 2; cand: the status of the last turn of main's loop; turns:
\* the turns so far, modulo 2; same: the last two turns had the same status.
NoOutput == [text |-> "", whole |-> TRUE, n |-> 0, cand |-> "", turns |-> 0, same |-> FALSE]

\* No monitor, no ticker and no status loop: the state the runs of the
\* registry and of the codec alone leave as it is.
SysIdle ==
    /\ outb = <<>>
    /\ mpc = "off"
    /\ prevLayout = ""
    /\ exit = "running"
    /\ now = 0
    /\ tpc = "now"
    /\ tt = 0
    /\ wake = 0
    /\ tch = <<>>
    /\ ipc = FALSE
    /\ layout = ""
    /\ t = 0
    /\ prevStatus = ""
    /\ stdout = NoOutput

(***************************************************************************)
(* The registry driven directly by its two operations.                      *)
(***************************************************************************)
InitRegistry == RegInit /\ ConnInit(0) /\ SysIdle

ApplyReg(r) ==
    /\ kbds' = r.kbds
    /\ kbdsNil' = r.nil
    /\ lastKbd' = r.lastKbd

SetOp(id, l) ==
    /\ ApplyReg(set(Reg, id, l))
    /\ op' = [name |-> "set", id |-> id, layout |-> l, known |-> id \in DOMAIN kbds]
    /\ recent' = RecentSet(recent, id, l)
    /\ UNCHANGED <<connVars, sysVars>>

DelOp(id) ==
    /\ ApplyReg(del(Reg, id))
    /\ op' = [name |-> "del", id |-> id, layout |-> "", known |-> id \in DOMAIN kbds]
    /\ recent' = RecentDel(recent, id)
    /\ UNCHANGED <<connVars, sysVars>>

NextRegistry ==
    \/ \E id \in DevIds, l \in LayoutInputs : SetOp(id, l)
    \/ \E id \in DevIds : DelOp(id)

SpecRegistry == InitRegistry /\ [][NextRegistry]_vars

\* The same with the identifier "" among the inputs: what an event or a
\* device entry without an identifier carries.
IdInputs == {"a", "b", ""}

NextRegistryAll ==
    \/ \E id \in IdInputs, l \in LayoutInputs : SetOp(id, l)
    \/ \E id \in IdInputs : DelOp(id)

SpecRegistryAll == InitRegistry /\ [][NextRegistryAll]_vars

(***************************************************************************)
(* The codec on a loopback connection: what WriteJSONMessage and            *)
(* WriteEmptyMessage write is what ReadMessage reads, next to frames a peer *)
(* sends with a wrong magic or cut short by closing the connection.         *)
(***************************************************************************)
\* The frames of one run.
MaxFrames == 3
\* The most bytes the handler of the codec runs asks its reader for.
MaxWant == 40

\* A type code the program does not know, with four different bytes (0x01020304).
OtherType == [hi |-> 258, lo |-> 772]
\* The values handed to WriteJSONMessage: []string.
PayloadInputs == {<<>>, <<"input">>, <<"a", "us">>}
\* What a handler asks for: nothing, one byte, or more than any payload holds.
WantInputs == {0, 1, MaxWant}
\* A header that does not start with Magic ("i3-ipd").
BadMagic == <<105, 51, 45, 105, 112, 100>>
\* Payload bytes of the frames a peer sends by hand.
RawPayload == <<123, 125, 10>>

CanSend == ~inClosed /\ toSend > 0

Send(bytes, frame) ==
    /\ inb' = inb \o bytes
    /\ wq' = Append(wq, [frame EXCEPT !.size = Len(bytes)])
    /\ toSend' = toSend - 1

CodecWriteJSON(mt, p) ==
    /\ CanSend
    /\ Send(WriteJSONMessage(mt, Marshal(p)),
            [kind |-> "json", type |-> mt, payload |-> Marshal(p), size |-> 0])
    /\ UNCHANGED <<regVars, sysVars, inClosed, rm>>

CodecWriteEmpty(mt) ==
    /\ CanSend
    /\ Send(WriteEmptyMessage(mt), [kind |-> "empty", type |-> mt, payload |-> <<>>, size |-> 0])
    /\ UNCHANGED <<regVars, sysVars, inClosed, rm>>

\* The peer sends a whole frame whose header has a wrong magic.
CodecSendBadMagic(mt) ==
    /\ CanSend
    /\ Send(EncodeHeader([Magic |-> BadMagic, Length |-> ToUint32(Len(RawPayload)), Type |-> mt])
                \o RawPayload,
            [kind |-> "badmagic", type |-> mt, payload |-> RawPayload, size |-> 0])
    /\ UNCHANGED <<regVars, sysVars, inClosed, rm>>

\* The peer sends the first n bytes of a frame and closes the connection.
CodecSendCut(mt, n) ==
    /\ CanSend
    /\ LET whole == EncodeHeader([Magic |-> Magic, Length |-> ToUint32(Len(RawPayload)),
                                  Type |-> mt]) \o RawPayload
       IN  /\ n < Len(whole)
           /\ Send(SubSeq(whole, 1, n),
                   [kind |-> "cut", type |-> mt, payload |-> RawPayload, size |-> 0])
    /\ inClosed' = TRUE
    /\ UNCHANGED <<regVars, sysVars, rm>>

CodecClose ==
    /\ ~inClosed
    /\ inClosed' = TRUE
    /\ UNCHANGED <<regVars, sysVars, inb, rm, wq, toSend>>

\* ReadMessage with a handler that reads want bytes of its reader (as many as
\* the reader yields) and returns the error e.  A caller stops reading after a
\* header it could not read.
CodecRead(want, e) ==
    /\ rm.err \in {"", "handler"}
    /\ inb # <<>> \/ inClosed
    /\ LET res == ReadMessage(inb, [read |-> Min(want, Len(payloadOf(inb))), err |-> e])
       IN  /\ rm' = Outcome(res)
           /\ inb' = res.rest
    /\ wq' = IF wq = <<>> THEN wq ELSE Tail(wq)
    /\ UNCHANGED <<regVars, sysVars, inClosed, toSend>>

InitCodec == RegInit /\ ConnInit(MaxFrames) /\ SysIdle

NextCodec ==
    \/ \E mt \in {SUBSCRIBE, OtherType}, p \in PayloadInputs : CodecWriteJSON(mt, p)
    \/ \E mt \in {GET_INPUTS, InputEvent} : CodecWriteEmpty(mt)
    \/ CodecSendBadMagic(InputEvent)
    \/ \E n \in {5, HeaderLen, HeaderLen + 1} : CodecSendCut(OtherType, n)
    \/ CodecClose
    \/ \E want \in WantInputs, e \in {"", "handler"} : CodecRead(want, e)

SpecCodec == InitCodec /\ [][NextCodec]_vars

(***************************************************************************)
(* The whole program: the monitor on its connection to Sway, the ticker and *)
(* the status loop of main (src/sklt.go 155-185, 247-281), with Sway and    *)
(* the clock as the environment.                                            *)
(***************************************************************************)
\* The frames Sway sends in one run without the ticker and in one with it, and
\* the frames it has sent and the monitor has not read.
MaxMsgs == 3
MaxTickerMsgs == 2
MaxInFlight == 1
\* The clock runs from 0 to MaxTime; the ticker's interval and the unit the
\* time format displays, in clock steps.
MaxTime == 2
Interval == 2
Unit == 2

\* t.Truncate(d)
Truncate(x, d) == x - (x % d)

\* t.Format(format) with " " before the format whether or not there is a connection.
FormatSpace(x) == " " \o ToString(x \div Unit) \o "\n"

\* t.Format(format) with main's format: " " before it when there is a
\* connection, "\n" after it; the time is displayed in whole units.
Format(x) == (IF ipc THEN " " ELSE "") \o ToString(x \div Unit) \o "\n"

\* Connect("") returned a connection, ErrNoIPC, or another error (src/sklt.go 249-257).
Start(n) ==
    /\ RegInit
    /\ ConnInit(n)
    /\ \E c \in {"conn", "ErrNoIPC", "error"} :
        /\ ipc = (c = "conn")
        /\ mpc = IF c = "conn" THEN "start" ELSE "off"
        /\ exit = IF c = "error" THEN "failed" ELSE "running"
    /\ outb = <<>>
    /\ prevLayout = ""
    /\ now = 0
    /\ tpc = "now"
    /\ tt = 0
    /\ wake = 0
    /\ tch = <<>>
    /\ layout = ""
    /\ t = 0
    /\ prevStatus = ""
    /\ stdout = NoOutput

\* watchLayouts without the comparison: every message is followed by a send.
unchangedNever(prev, nl) == FALSE

\* watchLayouts comparing nl with "" instead of self.prevLayout.
unchangedIfEmpty(prev, nl) == nl = ""

\* if self.prevLayout == nl { continue }
unchanged(prev, nl) == prev = nl

\* main with the comparison turned around: no turn writes a new status.
differsNever(status, prev) == status = prev

\* main without the comparison: every turn writes.
differsAlways(status, prev) == TRUE

\* if status != prevStatus
differs(status, prev) == status # prev

\* watchLayouts ignoring the error of ReadMessage: it goes on reading.
fatalNever(err) == FALSE

\* watchLayouts: if err != nil { ...; os.Exit(1) }
fatal(err) == err # ""

\* watchLayouts up to its loop: the SUBSCRIBE request.
MonitorStart ==
    /\ exit = "running"
    /\ mpc = "start"
    /\ IF inClosed
       THEN mpc' = "exit" /\ UNCHANGED outb
       ELSE /\ outb' = outb \o WriteJSONMessage(SUBSCRIBE, Marshal(<<"input">>))
            /\ mpc' = "read"
    /\ UNCHANGED <<regVars, connVars, prevLayout, exit, now, timerVars, mainVars>>

\* One turn of watchLayouts' loop: ReadMessage with processMsg, then the
\* comparison with prevLayout, up to the send on self.ch.
MonitorRead ==
    /\ exit = "running"
    /\ mpc = "read"
    /\ inb # <<>> \/ inClosed
    /\ LET res == ReadMessage(inb, processMsg(Reg, recent, inClosed, typeOf(inb), payloadOf(inb)))
       IN  /\ rm' = Outcome(res)
           /\ inb' = res.rest
           /\ IF fatal(res.err)
              THEN /\ mpc' = "exit"
                   /\ UNCHANGED <<regVars, outb, prevLayout>>
              ELSE /\ ApplyReg(res.h.reg)
                   /\ recent' = res.h.recent
                   /\ op' = res.h.op
                   /\ outb' = outb \o res.h.out
                   /\ LET nl == currentLayout(res.h.reg)
                      IN  IF unchanged(prevLayout, nl)
                          THEN mpc' = "read" /\ prevLayout' = prevLayout
                          ELSE mpc' = "send" /\ prevLayout' = nl
    /\ wq' = IF wq = <<>> THEN wq ELSE Tail(wq)
    /\ UNCHANGED <<inClosed, toSend, exit, now, timerVars, mainVars>>

\* watchLayouts after an error: fmt.Fprintln(os.Stderr, ...) is done and
\* os.Exit(1) ends the process, the other goroutines having run until then.
MonitorExit ==
    /\ exit = "running"
    /\ mpc = "exit"
    /\ exit' = "failed"
    /\ UNCHANGED <<regVars, connVars, monVars, now, timerVars, mainVars>>

\* timer: t := time.Now()
TimerNow ==
    /\ exit = "running"
    /\ tpc = "now"
    /\ tt' = now
    /\ tpc' = "send"
    /\ UNCHANGED <<regVars, connVars, monVars, exit, now, wake, tch, mainVars>>

\* tch made with a buffer of two values.
TchCapTwo == 1 + 1

\* The capacity of tch.
TchCap == 1

\* timer: ch <- t, then dt and time.Sleep(dt) (dt > 0 always).
TimerSend ==
    /\ exit = "running"
    /\ tpc = "send"
    /\ Len(tch) < TchCap
    /\ tch' = Append(tch, tt)
    /\ wake' = now + (Truncate(tt, Interval) + Interval - tt)
    /\ tpc' = "sleep"
    /\ UNCHANGED <<regVars, connVars, monVars, exit, now, tt, mainVars>>

\* timer: time.Sleep returns.
TimerWake ==
    /\ exit = "running"
    /\ tpc = "sleep"
    /\ now >= wake
    /\ tpc' = "now"
    /\ UNCHANGED <<regVars, connVars, monVars, exit, now, tt, wake, tch, mainVars>>

\* Time passes, up to max.
Pass(max) ==
    /\ exit = "running"
    /\ now < max
    /\ now' = now + 1
    /\ UNCHANGED <<regVars, connVars, monVars, exit, timerVars, mainVars>>

Tick == Pass(MaxTime)

\* The body of main's loop after the select: the candidate status and its
\* write.  w is what io.WriteString does: "ok", "error" (nothing written) or
\* "short" (a part of the line written).
Emit(lay, tm, w) ==
    LET status == lay \o Format(tm)
        seen == [stdout EXCEPT !.cand = status, !.turns = 1 - @,
                               !.same = (stdout.cand = status)]
    IN  IF differs(status, prevStatus)
        THEN /\ stdout' = IF w = "error" THEN seen
                          ELSE [seen EXCEPT !.text = status, !.whole = (w = "ok"), !.n = 1 - @]
             /\ prevStatus' = IF w = "ok" THEN status ELSE prevStatus
             /\ exit' = IF w = "ok" THEN exit ELSE "failed"
        ELSE /\ w = "ok"
             /\ stdout' = seen
             /\ UNCHANGED <<prevStatus, exit>>

WriteOutcomes == {"ok", "error", "short"}

\* case layout = <-m.ch: t = time.Now()
StatusLayout(w) ==
    /\ exit = "running"
    /\ mpc = "send"
    /\ mpc' = "read"
    /\ layout' = prevLayout
    /\ t' = now
    /\ Emit(prevLayout, now, w)
    /\ UNCHANGED <<regVars, connVars, outb, prevLayout, now, timerVars, ipc>>

\* case t = <-tch
StatusTick(w) ==
    /\ exit = "running"
    /\ tch # <<>>
    /\ t' = Head(tch)
    /\ tch' = Tail(tch)
    /\ Emit(layout, Head(tch), w)
    /\ UNCHANGED <<regVars, connVars, monVars, now, tpc, tt, wake, ipc, layout>>

\* What Sway sends.
SwayCanSend ==
    /\ ipc
    /\ exit = "running"
    /\ ~inClosed
    /\ toSend > 0
    /\ Len(wq) < MaxInFlight

\* A whole message of type mt with the payload b.
SwayMessage(kind, mt, b) ==
    /\ SwayCanSend
    /\ Send(WriteJSONMessage(mt, b), [kind |-> kind, type |-> mt, payload |-> b, size |-> 0])
    /\ UNCHANGED <<regVars, sysVars, inClosed, rm>>

SwaySubscribeReply(b) == SwayMessage("json", SUBSCRIBE, JsonSuccess(b))
SwayInputsReply(ds) == SwayMessage("json", GET_INPUTS, JsonInputs(ds))
SwayEvent(e) == SwayMessage("json", InputEvent, JsonEvent(e))
\* A message of a type the program does not handle.
SwayOther == SwayMessage("json", OtherType, RawPayload)
\* A message whose payload is not the JSON of its type's document.
SwayMalformed(mt) == SwayMessage("malformed", mt, RawPayload)

SwayBadMagic ==
    /\ SwayCanSend
    /\ Send(EncodeHeader([Magic |-> BadMagic, Length |-> ToUint32(Len(RawPayload)),
                          Type |-> InputEvent]) \o RawPayload,
            [kind |-> "badmagic", type |-> InputEvent, payload |-> RawPayload, size |-> 0])
    /\ UNCHANGED <<regVars, sysVars, inClosed, rm>>

SwayClose ==
    /\ ipc
    /\ exit = "running"
    /\ ~inClosed
    /\ inClosed' = TRUE
    /\ UNCHANGED <<regVars, sysVars, inb, rm, wq, toSend>>

\* The replies and events of the runs.
InputsInputs ==
    {<<>>,
     <<[id |-> "a", layout |-> "us"]>>,
     <<[id |-> "a", layout |-> "us"], [id |-> "b", layout |-> "de"]>>,
     <<[id |-> "a", layout |-> "us"], [id |-> "b", layout |-> ""]>>,
     <<[id |-> "b", layout |-> ""], [id |-> "a", layout |-> "de"]>>}
EventInputs ==
    {[change |-> "xkb_layout", input |-> [id |-> "a", layout |-> "us"]],
     [change |-> "xkb_layout", input |-> [id |-> "a", layout |-> "de"]],
     [change |-> "xkb_layout", input |-> [id |-> "b", layout |-> "us"]],
     [change |-> "xkb_layout", input |-> [id |-> "a", layout |-> ""]],
     [change |-> "removed", input |-> [id |-> "a", layout |-> "us"]],
     [change |-> "removed", input |-> [id |-> "b", layout |-> ""]]}

\* The replies and events of the runs with the ticker.
FewInputs == {<<[id |-> "a", layout |-> "us"]>>}
FewEvents ==
    {[change |-> "xkb_layout", input |-> [id |-> "a", layout |-> "de"]],
     [change |-> "removed", input |-> [id |-> "a", layout |-> ""]]}

\* The monitor, Sway and main's receive of layouts while the clock stands at 0
\* and the ticker has not run yet.
InitMonitor == Start(MaxMsgs) /\ ipc

NextMonitor ==
    \/ MonitorStart
    \/ MonitorRead
    \/ MonitorExit
    \/ \E w \in WriteOutcomes : StatusLayout(w)
    \/ \E b \in BOOLEAN : SwaySubscribeReply(b)
    \/ \E ds \in InputsInputs : SwayInputsReply(ds)
    \/ \E e \in EventInputs : SwayEvent(e)
    \/ SwayOther
    \/ \E mt \in {SUBSCRIBE, GET_INPUTS, InputEvent} : SwayMalformed(mt)
    \/ SwayBadMagic
    \/ SwayClose

SpecMonitor == InitMonitor /\ [][NextMonitor]_vars

\* The whole program.
Init == Start(MaxTickerMsgs)

Next ==
    \/ MonitorStart
    \/ MonitorRead
    \/ MonitorExit
    \/ TimerNow
    \/ TimerSend
    \/ TimerWake
    \/ Tick
    \/ \E w \in WriteOutcomes : StatusLayout(w)
    \/ \E w \in WriteOutcomes : StatusTick(w)
    \/ \E b \in BOOLEAN : SwaySubscribeReply(b)
    \/ \E ds \in FewInputs : SwayInputsReply(ds)
    \/ \E e \in FewEvents : SwayEvent(e)
    \/ SwayMalformed(InputEvent)
    \/ SwayBadMagic
    \/ SwayClose

Spec == Init /\ [][Next]_vars

\* The ticker and main's receive of its values, without a connection, over a
\* longer time.
MaxTickerTime == 6

InitTicker == Start(0) /\ ~ipc /\ exit = "running"

NextTicker ==
    \/ TimerNow
    \/ TimerSend
    \/ TimerWake
    \/ Pass(MaxTickerTime)
    \/ \E w \in WriteOutcomes : StatusTick(w)

SpecTicker == InitTicker /\ [][NextTicker]_vars

(***************************************************************************)
(* The claims.                                                              *)
(***************************************************************************)
\* C1: after every sequence of set and del operations from the empty registry,
\* the current layout (the layout of the record lastKbd names, "" if none) is
\* the layout of the present device that was last passed to set with a new id
\* or a changed non-empty layout, and is "" exactly when no device is present.
\* monitor.set never writes the nextDev of the old tail, so del of a device in
\* the middle leaves its successor's prevDev naming it: violated.
C1_CurrentLayoutIsLastChanged ==
    currentLayout(Reg) = (IF recent = <<>> THEN "" ELSE recent[Len(recent)].layout)

\* C2: in every reachable state lastKbd is "" iff the registry holds no
\* device, and otherwise names a device that is present, was not deleted, and
\* has an empty nextDev.  Violated: del of the tail moves lastKbd to a prevDev
\* that names a deleted device.
C2_TailIsPresentDevice ==
    /\ (lastKbd = "") <=> (DOMAIN kbds = {})
    /\ lastKbd # "" =>
        /\ lastKbd \in DOMAIN kbds
        /\ Has(recent, lastKbd)
        /\ kbds[lastKbd].nextDev = ""

\* The devices met following prevDev from id, at most n of them.
RECURSIVE PrevWalk(_, _, _)
PrevWalk(m, id, n) ==
    IF id = "" \/ n = 0 THEN <<>>
    ELSE <<id>> \o PrevWalk(m, Lookup(m, id).prevDev, n - 1)

\* C3: in every reachable state the list is a well-formed doubly linked list:
\* for present devices A and B, A.nextDev = B iff B.prevDev = A, and following
\* prevDev from lastKbd visits every present device exactly once and then
\* reaches "".  Violated after two sets: no nextDev is ever set to a device.
C3_WellFormedList ==
    /\ \A a, b \in DOMAIN kbds : (kbds[a].nextDev = b) <=> (kbds[b].prevDev = a)
    /\ LET w == PrevWalk(kbds, lastKbd, Cardinality(DOMAIN kbds) + 1)
       IN  /\ Len(w) = Cardinality(DOMAIN kbds)
           /\ {w[i] : i \in 1..Len(w)} = DOMAIN kbds

\* The frame is an input event that is a set with a non-empty layout.
IsSetEvent(fr) ==
    /\ fr.kind = "json"
    /\ fr.type = InputEvent
    /\ LET d == DecodeEvent(fr.payload)
       IN  d.ok /\ d.v.change # "removed" /\ d.v.input.layout # ""

\* C4: when the monitor processes an input event set(id, layout), layout
\* non-empty, right after it processed the same event, the second leaves the
\* records, their links and lastKbd as they are, and is followed by no send on
\* the layout channel.
C4_SecondSetChangesNothing ==
    [][(rm'.calls = rm.calls + 1 /\ rm.err = "" /\ IsSetEvent(rm.frame) /\ rm'.frame = rm.frame)
         => (UNCHANGED <<kbds, kbdsNil, lastKbd, prevLayout>> /\ mpc' = "read")]_vars

\* The same set event was processed twice in a row, with two devices in the registry.
C4_Witness ==
    /\ rm.calls >= 2
    /\ rm.err = ""
    /\ IsSetEvent(rm.frame)
    /\ rm.before = rm.frame
    /\ Cardinality(DOMAIN kbds) = 2

Whole(fr) == fr.kind \in {"json", "empty"}

C7_WriteReadRoundTrip ==
    (rm.calls > 0 /\ Whole(rm.frame)) =>
        /\ rm.called
        /\ rm.type = rm.frame.type
        /\ rm.payload = rm.frame.payload
        /\ rm.length = Len(rm.frame.payload)
        /\ rm.frame.kind = "empty" => rm.length = 0

\* A JSON message with a four-byte type code was read as the second message.
C7_Witness ==
    /\ rm.calls >= 2
    /\ rm.err = ""
    /\ rm.frame.kind = "json"
    /\ rm.type = OtherType
    /\ rm.length > 2

\* C8: when the magic of a received header is not the protocol's, ReadMessage
\* returns an error without invoking the handler, having consumed the 14
\* header bytes and no payload byte, and the registry and prevLayout are as
\* they were.
C8_BadMagicIsRejected ==
    [][(rm'.calls = rm.calls + 1 /\ rm'.frame.kind = "badmagic")
         => /\ ~rm'.called
            /\ rm'.err = "invalid magic string"
            /\ rm'.consumed = HeaderLen
            /\ inb' = SubSeq(inb, HeaderLen + 1, Len(inb))
            /\ UNCHANGED <<kbds, kbdsNil, lastKbd, prevLayout>>]_vars

\* A header with a wrong magic was read by a monitor that had reported a layout.
C8_Witness ==
    /\ rm.calls >= 2
    /\ rm.frame.kind = "badmagic"
    /\ exit = "failed"
    /\ DOMAIN kbds # {}
    /\ prevLayout # ""

\* C9: after each message it processed without error the monitor sends the
\* current layout iff it differs from prevLayout, and prevLayout is then the
\* current layout; every value main receives is the value sent, differs from
\* the value received before it, and the first one is not "".
C9_SendIffLayoutChanged ==
    [][/\ (rm'.calls = rm.calls + 1 /\ rm'.err = "") =>
            /\ (mpc' = "send") <=> (currentLayout(Reg)' # prevLayout)
            /\ prevLayout' = currentLayout(Reg)'
       /\ (mpc = "send" /\ mpc' = "read") =>
            /\ layout' = prevLayout
            /\ layout' # layout]_vars

\* The monitor is about to send a second layout, another one than main holds.
C9_Witness ==
    /\ mpc = "send"
    /\ rm.calls >= 2
    /\ layout # ""
    /\ prevLayout # ""

\* C10: in every turn of main's loop the candidate status is written iff it
\* differs from the line written last; a line written differs from the line
\* written before it; of two turns in a row with the same candidate the
\* second writes nothing.
C10_WriteIffStatusDiffers ==
    [][(stdout'.turns # stdout.turns) =>
         /\ (stdout'.cand # stdout.text) <=> (stdout'.n # stdout.n \/ exit' = "failed")
         /\ (stdout'.n # stdout.n) => (stdout'.text = stdout'.cand /\ stdout'.text # stdout.text)
         /\ stdout'.same => (stdout'.n = stdout.n /\ exit' = exit)]_vars

\* Two turns in a row had the same candidate, with a layout reported.
C10_Witness ==
    /\ stdout.same
    /\ layout # ""
    /\ stdout.n = 1
    /\ exit = "running"

\* What watchLayouts writes before its loop.
SubscribeRequest == WriteJSONMessage(SUBSCRIBE, Marshal(<<"input">>))

\* The frame is a SUBSCRIBE reply whose success flag is b.
IsSubscribeReply(fr, b) ==
    /\ fr.kind = "json"
    /\ fr.type = SUBSCRIBE
    /\ LET d == DecodeSuccess(fr.payload) IN d.ok /\ d.v = b

\* C11: the first bytes the monitor writes on the connection are the SUBSCRIBE
\* request; every later write is one GET_INPUTS request, written while a
\* SUBSCRIBE reply with success true is processed, and each such reply read
\* on an open connection is answered by one; a SUBSCRIBE reply with success
\* false is an error after which the monitor writes nothing and can only exit.
C11_HandshakeOrder ==
    [][/\ (outb = <<>> /\ outb' # <<>>) => outb' = SubscribeRequest
       /\ (outb # <<>> /\ outb' # outb) =>
            /\ rm'.calls = rm.calls + 1
            /\ IsSubscribeReply(rm'.frame, TRUE)
            /\ outb' = outb \o WriteEmptyMessage(GET_INPUTS)
       /\ (rm'.calls = rm.calls + 1 /\ IsSubscribeReply(rm'.frame, TRUE) /\ ~inClosed) =>
            outb' = outb \o WriteEmptyMessage(GET_INPUTS)
       /\ (rm'.calls = rm.calls + 1 /\ IsSubscribeReply(rm'.frame, FALSE)) =>
            /\ rm'.err = "failed to subscribe to Sway events"
            /\ outb' = outb
            /\ mpc' = "exit"
       /\ mpc = "exit" => (outb' = outb /\ mpc' = "exit" /\ rm' = rm)]_vars

\* The monitor has answered a second successful SUBSCRIBE reply with a second
\* GET_INPUTS request.
C11_Witness ==
    /\ rm.calls >= 2
    /\ rm.err = ""
    /\ IsSubscribeReply(rm.frame, TRUE)
    /\ outb = SubscribeRequest \o WriteEmptyMessage(GET_INPUTS) \o WriteEmptyMessage(GET_INPUTS)

\* The scheduling of the goroutines: a goroutine that can take a step takes
\* it, time passes, and main's select takes a value that is ready.  Of the
\* monitor only the exit is required; that it reads what Sway sent is not.
Fairness ==
    /\ WF_vars(MonitorExit)
    /\ WF_vars(TimerNow)
    /\ WF_vars(TimerSend)
    /\ WF_vars(TimerWake)
    /\ WF_vars(Tick)
    /\ WF_vars(\E w \in WriteOutcomes : StatusLayout(w))
    /\ WF_vars(\E w \in WriteOutcomes : StatusTick(w))

FairSpec == Spec /\ Fairness

\* A step in which the monitor meets an error: ReadMessage returns one, or
\* the SUBSCRIBE request cannot be written.
MonitorFails == mpc # "exit" /\ mpc' = "exit"

\* What an error of the monitor leaves as it was, and what the monitor does
\* once it has met one: nothing but the exit.
FailureIsTerminal ==
    /\ (rm'.calls = rm.calls + 1 /\ rm'.err # "") => MonitorFails
    /\ MonitorFails => UNCHANGED <<kbds, kbdsNil, lastKbd, prevLayout, outb, layout>>
    /\ mpc = "exit" =>
        /\ mpc' = "exit"
        /\ UNCHANGED <<rm, kbds, kbdsNil, lastKbd, prevLayout, outb, layout>>
    /\ exit = "failed" => UNCHANGED vars

\* C12 as stated: a decode failure, a wrong magic or a read or write error of
\* the monitor is terminal: no further message is read, no layout is sent for
\* the failing message, no status line is written afterwards, and the process
\* ends failed.  Violated: between the error and os.Exit(1) watchLayouts
\* prints to os.Stderr, and main, still running, writes the line of a tick.
C12_NoLineAfterFailure ==
    [][/\ FailureIsTerminal
       /\ mpc = "exit" => stdout'.n = stdout.n]_vars

\* C12, amended: a decode failure, a wrong magic or a read or write error of
\* the monitor is terminal: the registry, prevLayout and the connection stay
\* as they were, no further message is read, no layout is sent, nothing at
\* all happens once the process has exited, and under fair scheduling the
\* process does exit, failed; until os.Exit(1) main may still write lines.
C12_FailureIsTerminal ==
    /\ [][FailureIsTerminal]_vars
    /\ (mpc = "exit") ~> (exit = "failed")

\* The monitor failed on a message after it had reported a layout, main wrote
\* a line of a later tick before the exit, and the process has exited.
C12_Witness ==
    /\ mpc = "exit"
    /\ exit = "failed"
    /\ rm.err # ""
    /\ rm.calls >= 2
    /\ layout # ""
    /\ t > 0
    /\ stdout.n = 1

\* C13: when Connect returns ErrNoIPC the program runs on: no monitor is
\* started, nothing is read from or written to a connection, no layout is
\* received, every line written is the formatted time alone, with no layout
\* and no separator before it, and the process ends only when a write to
\* os.Stdout fails; when Connect returns another error the process has ended,
\* failed, before any turn of the status loop and nothing is written.
C13_NoIPCIsTimeOnly ==
    [][~ipc =>
         /\ mpc = "off" /\ mpc' = "off"
         /\ layout = "" /\ layout' = ""
         /\ rm'.calls = 0 /\ outb' = <<>>
         /\ (stdout'.n # stdout.n) => stdout'.text = ToString(t' \div Unit) \o "\n"
         /\ (exit = "running" /\ exit' = "failed") =>
              (stdout'.turns # stdout.turns /\ stdout'.cand # stdout.text)
         /\ (exit = "failed" /\ stdout.cand = "") => UNCHANGED vars]_vars

\* Without a connection a second line was written, of a later time.
C13_Witness ==
    /\ ~ipc
    /\ exit = "running"
    /\ t >= Unit
    /\ stdout.n = 0
    /\ stdout.text = ToString(t \div Unit) \o "\n"

\* C14: every firing of the ticker after the first takes its timestamp at a
\* multiple of the interval, also when main is slow to receive; stated for
\* the firings whose sleep ended at the moment it was due to end.  Violated:
\* dt is computed from the timestamp t taken before the send on ch, and the
\* sleep of dt starts when the send is over, which is later than t whenever
\* the send had to wait, so the sleep ends dt after that and not on a boundary.
C14_FiringsOnBoundary ==
    [][(tpc = "now" /\ tpc' = "send" /\ wake > 0 /\ now = wake) => tt' % Interval = 0]_vars

\* The monitor's send on m.ch is a rendezvous: while the monitor is at the
\* send it does nothing, and it leaves the send in the step in which main
\* receives the value sent.
LayoutRendezvous ==
    mpc = "send" =>
        /\ UNCHANGED <<rm, kbds, kbdsNil, lastKbd, prevLayout, outb>>
        /\ mpc' = "send" \/ (mpc' = "read" /\ layout' = prevLayout)

IsOther(fr) ==
    /\ Whole(fr)
    /\ fr.type \notin {SUBSCRIBE, GET_INPUTS, InputEvent}

\* C16: a received message whose type is none of SUBSCRIBE, GET_INPUTS and
\* InputEvent is ignored: ReadMessage returns no error, the handler reads
\* nothing of the payload, nothing is written to the connection, the registry
\* and prevLayout stay as they are, no layout is sent, and the whole message
\* is consumed, so that the message after it is read with its own type and
\* payload.
C16_OtherTypesIgnored ==
    [][/\ (rm'.calls = rm.calls + 1 /\ IsOther(rm'.frame)) =>
            /\ rm'.called /\ rm'.err = "" /\ rm'.read = 0
            /\ rm'.type = rm'.frame.type
            /\ rm'.consumed = HeaderLen + Len(rm'.frame.payload)
            /\ inb' = SubSeq(inb, rm'.consumed + 1, Len(inb))
            /\ UNCHANGED <<kbds, kbdsNil, lastKbd, prevLayout, outb>>
            /\ mpc' = "read"
       /\ (rm'.calls = rm.calls + 1 /\ IsOther(rm.frame) /\ Whole(rm'.frame)) =>
            /\ rm'.called
            /\ rm'.type = rm'.frame.type
            /\ rm'.payload = rm'.frame.payload]_vars

\* After a message of another type, with payload, an input event was read
\* and changed the layout.
C16_Witness ==
    /\ rm.calls >= 2
    /\ IsOther(rm.before)
    /\ rm.before.payload # <<>>
    /\ IsSetEvent(rm.frame)
    /\ rm.err = ""
    /\ mpc = "send"

\* The devices of a GET_INPUTS reply if the frame is one, whole and well
\* formed, with distinct identifiers.
IsInputsReply(fr) ==
    /\ fr.kind = "json"
    /\ fr.type = GET_INPUTS
    /\ LET d == DecodeInputs(fr.payload)
       IN  /\ d.ok
           /\ \A i, j \in 1..Len(d.v) : d.v[i].id = d.v[j].id => i = j

\* The layout of the last device of ds that has one, "" if there is none.
RECURSIVE LastLayout(_)
LastLayout(ds) ==
    IF ds = <<>> THEN ""
    ELSE IF ds[Len(ds)].layout # "" THEN ds[Len(ds)].layout
    ELSE LastLayout(SubSeq(ds, 1, Len(ds) - 1))

\* C17: a GET_INPUTS reply listing devices with distinct identifiers, read by
\* a monitor whose registry is empty, leaves in the registry exactly the
\* listed devices that have a non-empty layout, each with its layout; the
\* current layout is then the layout of the last such device of the list, ""
\* if there is none, and it is sent on the layout channel iff it differs from
\* prevLayout, which becomes it.
C17_InputsReplyFillsRegistry ==
    [][(/\ rm'.calls = rm.calls + 1
        /\ rm'.err = ""
        /\ IsInputsReply(rm'.frame)
        /\ DOMAIN kbds = {}
        /\ lastKbd = "")
         => LET ds == DecodeInputs(rm'.frame.payload).v
                on == {i \in 1..Len(ds) : ds[i].layout # ""}
            IN  /\ DOMAIN kbds' = {ds[i].id : i \in on}
                /\ \A i \in on : kbds'[ds[i].id].layout = ds[i].layout
                /\ currentLayout(Reg)' = LastLayout(ds)
                /\ (mpc' = "send") <=> (LastLayout(ds) # prevLayout)
                /\ prevLayout' = LastLayout(ds)]_vars

\* A reply of two devices, the first without a layout, was read, and the
\* layout of the second is about to be sent.
C17_Witness ==
    /\ rm.err = ""
    /\ IsInputsReply(rm.frame)
    /\ Len(DecodeInputs(rm.frame.payload).v) = 2
    /\ DecodeInputs(rm.frame.payload).v[1].layout = ""
    /\ op.name = "inputs"
    /\ DOMAIN kbds = {"a"}
    /\ mpc = "send"
    /\ prevLayout = "de"

\* C18: in every state reached by set and del operations every record of the
\* map has a non-empty layout and belongs to a device that was set and not
\* deleted since: the relinking of neighbours never re-creates a record.
\* Violated: del writes back the record of l1.prevDev (and set and del that of
\* l1.nextDev) read from the map, and for a prevDev that names a deleted
\* device that is a zero record stored anew.
C18_RecordsHaveLayouts ==
    \A id \in DOMAIN kbds : kbds[id].layout # "" /\ Has(recent, id)

\* Main receives a layout and, in the same turn, writes the line that begins
\* with it, unless the write fails; a tick's line begins with the layout
\* received last.
LayoutIsWritten ==
    /\ (mpc = "send" /\ mpc' = "read") =>
        /\ layout' = prevLayout
        /\ stdout'.cand = layout' \o Format(t')
        /\ \/ exit' = "failed"
           \/ stdout'.n # stdout.n /\ stdout'.text = stdout'.cand
    /\ (tch # <<>> /\ tch' = <<>>) =>
        /\ layout' = layout
        /\ stdout'.cand = layout \o Format(tch[1])

\* C19: under fair scheduling the goroutines never all wait for each other:
\* while the process runs, the ticker sleeps or can take a step or main can
\* receive its value; every layout the monitor sends is eventually received
\* by main, unless a failed write has ended the process; the turn that
\* receives it writes the line that begins with it, and the line of every
\* later tick begins with the layout received last.
C19_LayoutsAreDelivered ==
    /\ [][LayoutIsWritten]_vars
    /\ [](exit = "running" /\ tpc # "sleep" =>
            ENABLED (TimerNow \/ TimerSend \/ \E w \in WriteOutcomes : StatusTick(w)))
    /\ [](exit = "running" /\ mpc = "send" => ENABLED (\E w \in WriteOutcomes : StatusLayout(w)))
    /\ (mpc = "send") ~> (mpc = "read" \/ exit = "failed")

\* A layout was received and written, and the line of a later tick, of
\* another time, was written with it.
C19_Witness ==
    /\ layout # ""
    /\ exit = "running"
    /\ t >= Unit
    /\ tt = t
    /\ tch = <<>>
    /\ tpc = "sleep"
    /\ stdout.text = layout \o Format(t)
    /\ stdout.n = 0

\* C20: "" is never a device of the registry: an operation with the
\* identifier "" (del(""), or set("", layout) for any layout) leaves the
\* records, lastKbd and the current layout as they are, and no record is
\* stored under "".  Violated: del returns at once for "", but set has no
\* such test and stores a record under "" for a non-empty layout.
C20_EmptyIdChangesNothing ==
    [][(op'.name \in {"set", "del"} /\ op'.id = "") =>
         /\ UNCHANGED <<kbds, lastKbd>>
         /\ currentLayout(Reg)' = currentLayout(Reg)
         /\ "" \notin DOMAIN kbds']_vars

=============================================================================
